---- MODULE Spec2Model ----
(***************************************************************************)
(* Model of the two analysis components of python_forex_analysis_bot:      *)
(*   - bot/sr_detection.py      detect_sr_events (rolling z-score events)  *)
(*   - forex_analysis_bot.py    calculate_atr, get_sr_levels,              *)
(*                              get_trendlines                             *)
(*                                                                         *)
(* A DataFrame is a record [index, col]: index is the sequence of row      *)
(* labels (timestamps) and col maps each column name to its sequence of    *)
(* cells.  Row i of the source (0-based, as iloc) is position i+1 of a     *)
(* sequence here; At(s, i) reads it.                                       *)
(*                                                                         *)
(* Arithmetic is exact.  A cell that pandas may leave missing is a record  *)
(* [nan, num, den] (the rational num/den); the 'Rolling_Std' cell holds    *)
(* the variance whose square root it denotes, and the 'Z_Score' cell holds *)
(* the difference and that variance, so that |Z| > threshold is decided    *)
(* exactly, epsilon included (AbsGreater).                                 *)
(*                                                                         *)
(* Prices of the OHLC frames count units of 2^-19 = 1/PriceUnitInv (about  *)
(* 0.0000019), which a double holds exactly: the sums and differences of   *)
(* prices that the code computes are exact, as they are here.  The         *)
(* exponential average of calculate_atr is not: its cell carries `exact`,  *)
(* which says whether the double the code holds is the rational num/den    *)
(* itself (the first row and the rows of a constant run) or a rounding of  *)
(* it.  A comparison that the rational decides by a margin is decided the  *)
(* same way by the code; the comparison of get_sr_levels on an exact tie   *)
(* with an inexact filter is decided by the rounding errors, and is        *)
(* modelled as a choice (OutsideFilter).                                   *)
(* round(l, 5) yields the multiple of 0.00001 = 1/RoundInv nearest to the  *)
(* price, the even one of two that are equally near: a returned level      *)
(* counts units of 0.00001.                                                *)
(***************************************************************************)
EXTENDS Integers, Sequences, FiniteSets, TLC

VARIABLES df, ret

vars == <<df, ret>>

(* ------------------------------ bounds -------------------------------- *)

\* longest 'Signal' series enumerated exhaustively
MaxSigLen == 4

\* longest OHLC series
MaxBars == 7

\* largest rolling window passed to detect_sr_events
MaxWindow == 3

(* ------------------------- program constants -------------------------- *)

ATR_PERIOD == 14

ATR_MULTIPLIER == 1

\* order=5 of the argrelextrema calls of get_sr_levels
SR_ORDER == 5

pivot_order == 20

\* epsilon = 1e-6 is 1 / EpsInv
EpsInv == 1000000

\* round(l, 5): a multiple of 1 / RoundInv = 0.00001
RoundInv == 10 ^ 5

\* a price p of the model is p / PriceUnitInv
PriceUnitInv == 2 ^ 19

\* RoundInv / PriceUnitInv in lowest terms: a price of p units is
\* p * RoundNum / UnitDen multiples of 0.00001
RoundNum == RoundInv \div (2 ^ 5)

UnitDen == PriceUnitInv \div (2 ^ 5)

(* ------------------------------ cells --------------------------------- *)

NaN == [nan |-> TRUE, num |-> 0, den |-> 1]

Num(a, b) == [nan |-> FALSE, num |-> a, den |-> b]

Abs(x) == IF x < 0 THEN -x ELSE x

\* row i (0-based) of a column
At(s, i) == s[i + 1]

RECURSIVE SumRange(_, _, _)
\* s[lo] + ... + s[hi]
SumRange(s, lo, hi) == IF lo > hi THEN 0 ELSE s[hi] + SumRange(s, lo, hi - 1)

RECURSIVE SumSqRange(_, _, _)
\* s[lo]^2 + ... + s[hi]^2
SumSqRange(s, lo, hi) ==
    IF lo > hi THEN 0 ELSE s[hi] * s[hi] + SumSqRange(s, lo, hi - 1)

(* ---------------------------- DataFrame ------------------------------- *)

Columns(data) == DOMAIN data.col

NRows(data) == Len(data.index)

\* data[name] = values
SetCol(data, name, values) ==
    [data EXCEPT !.col = [c \in (DOMAIN data.col) \cup {name} |->
                             IF c = name THEN values ELSE data.col[c]]]

\* pd.DataFrame({'Signal': signal}) over the timestamps 0 .. n-1
SignalFrame(signal) ==
    [index |-> [k \in 1..Len(signal) |-> k - 1],
     col   |-> [c \in {"Signal"} |-> signal]]

\* an OHLC frame over the timestamps 0 .. n-1
OhlcFrame(bars) ==
    [index |-> [k \in 1..Len(bars) |-> k - 1],
     col   |-> [c \in {"High", "Low", "Close"} |->
                  [k \in 1..Len(bars) |-> bars[k][c]]]]

(* ---------------- bot/sr_detection.py: detect_sr_events ---------------- *)

\* mutant of RollingMean: the mean of the `window` values before the row
RollingMeanOfPrevious(signal, window) ==
    [k \in 1..Len(signal) |->
        IF window = 0 \/ k <= window THEN NaN
        ELSE Num(SumRange(signal, k - window, k - 1), window)]

\* df['Signal'].rolling(window=window).mean(): the mean of the trailing
\* `window` values; missing before the first full window (min_periods is
\* the window) and, for window 0, everywhere.
RollingMean(signal, window) ==
    [k \in 1..Len(signal) |->
        IF window = 0 \/ k < window THEN NaN
        ELSE Num(SumRange(signal, k - window + 1, k), window)]

\* mutant of RollingStd: the population standard deviation (ddof = 0)
RollingStdPopulation(signal, window) ==
    [k \in 1..Len(signal) |->
        IF window < 1 \/ k < window THEN NaN
        ELSE LET s  == SumRange(signal, k - window + 1, k)
                 ss == SumSqRange(signal, k - window + 1, k)
             IN  Num(window * ss - s * s, window * window)]

\* df['Signal'].rolling(window=window).std(): the sample standard deviation
\* (ddof = 1) of the trailing `window` values, missing where the mean is
\* and for a window of fewer than 2 values.  The cell num/den is the
\* variance (w*sum(x^2) - sum(x)^2) / (w*(w-1)); the cell denotes its root.
RollingStd(signal, window) ==
    [k \in 1..Len(signal) |->
        IF window < 2 \/ k < window THEN NaN
        ELSE LET s  == SumRange(signal, k - window + 1, k)
                 ss == SumSqRange(signal, k - window + 1, k)
             IN  Num(window * ss - s * s, window * (window - 1))]

\* df['Signal'] - df['Rolling_Mean']
Difference(signal, mean) ==
    [k \in 1..Len(signal) |->
        IF mean[k].nan THEN NaN
        ELSE Num(signal[k] * mean[k].den - mean[k].num, mean[k].den)]

\* df['Difference'] / (df['Rolling_Std'] + epsilon): the cell denotes
\* (num/den) / (sqrt(vnum/vden) + 1/EpsInv).
ZScore(difference, std) ==
    [k \in 1..Len(difference) |->
        IF difference[k].nan \/ std[k].nan
        THEN [nan |-> TRUE, num |-> 0, den |-> 1, vnum |-> 0, vden |-> 1]
        ELSE [nan |-> FALSE, num |-> difference[k].num, den |-> difference[k].den,
              vnum |-> std[k].num, vden |-> std[k].den]]

\* |a/b| > (tn/td) * (sqrt(p/q) + 1/EpsInv), for b, q, td, tn > 0, p >= 0.
\* With N = |a|*td this is  N - tn*b/EpsInv > tn*b*sqrt(p/q).  The
\* subtrahend lies strictly between 0 and 1, so N >= 1 is needed; squaring,
\* with G = q*N^2 - tn^2*b^2*p and H = 2*N*q*tn*b, it is
\* G*EpsInv > H - q*tn^2*b^2/EpsInv, whose last term also lies strictly
\* between 0 and 1: G*EpsInv >= H, that is G >= ceiling(H / EpsInv).
ExceedsScaled(a, b, p, q, tn, td) ==
    LET N == Abs(a) * td
        G == q * N * N - tn * tn * b * b * p
        H == 2 * N * q * tn * b
    IN  /\ N >= 1
        /\ G >= 1
        /\ G >= (H + EpsInv - 1) \div EpsInv

\* z.abs() > threshold, for a 'Z_Score' cell z and threshold = num/den.
\* A missing z compares False.  The denominator sqrt(.) + epsilon is
\* positive, so z has the sign of the difference.
AbsGreater(z, threshold) ==
    IF z.nan THEN FALSE
    ELSE IF threshold.num < 0 THEN TRUE
    ELSE IF threshold.num = 0 THEN z.num # 0
    ELSE ExceedsScaled(z.num, z.den, z.vnum, z.vden, threshold.num, threshold.den)

\* df['Z_Score'].abs() > z_score_threshold
IsEvent(zscore, threshold) ==
    [k \in 1..Len(zscore) |-> AbsGreater(zscore[k], threshold)]

RECURSIVE SelectRows(_, _, _)
\* df[df['Is_Event']][['Signal', 'Z_Score']]: the flagged rows among the
\* first k, in the order of the frame
SelectRows(data, flags, k) ==
    IF k = 0 THEN <<>>
    ELSE LET before == SelectRows(data, flags, k - 1)
         IN  IF flags[k]
             THEN Append(before, [t       |-> data.index[k],
                                  Signal  |-> data.col["Signal"][k],
                                  Z_Score |-> data.col["Z_Score"][k]])
             ELSE before

\* What a call leaves: the frame it was given (as it is afterwards), the
\* exception it raised ("none" if it returned) and the value it returned.
Outcome(data, err, value) ==
    [df |-> data, err |-> err, value |-> value, locals |-> <<>>]

\* mutant of detect_sr_events: the flags of an earlier call are kept
\* (df['Is_Event'] |= ...)
detect_sr_events_accumulating(data, window, z_score_threshold) ==
    IF "Signal" \notin Columns(data) THEN Outcome(data, "ValueError", <<>>)
    ELSE IF window < 0 THEN Outcome(data, "ValueError", <<>>)
    ELSE
    LET d1 == SetCol(data, "Rolling_Mean", RollingMean(data.col["Signal"], window))
        d2 == SetCol(d1, "Rolling_Std", RollingStd(d1.col["Signal"], window))
        d3 == SetCol(d2, "Difference",
                     Difference(d2.col["Signal"], d2.col["Rolling_Mean"]))
        d4 == SetCol(d3, "Z_Score",
                     ZScore(d3.col["Difference"], d3.col["Rolling_Std"]))
        is_event == IsEvent(d4.col["Z_Score"], z_score_threshold)
        d5 == SetCol(d4, "Is_Event",
                     [k \in 1..NRows(d4) |->
                         \/ is_event[k]
                         \/ ("Is_Event" \in Columns(data) /\ data.col["Is_Event"][k])])
    IN  Outcome(d5, "none", SelectRows(d5, d5.col["Is_Event"], NRows(d5)))

\* detect_sr_events(df, window, z_score_threshold).  rolling() raises
\* ValueError for a negative window, before any column is assigned.
detect_sr_events(data, window, z_score_threshold) ==
    IF "Signal" \notin Columns(data) THEN Outcome(data, "ValueError", <<>>)
    ELSE IF window < 0 THEN Outcome(data, "ValueError", <<>>)
    ELSE
    LET d1 == SetCol(data, "Rolling_Mean", RollingMean(data.col["Signal"], window))
        d2 == SetCol(d1, "Rolling_Std", RollingStd(d1.col["Signal"], window))
        d3 == SetCol(d2, "Difference",
                     Difference(d2.col["Signal"], d2.col["Rolling_Mean"]))
        d4 == SetCol(d3, "Z_Score",
                     ZScore(d3.col["Difference"], d3.col["Rolling_Std"]))
        d5 == SetCol(d4, "Is_Event", IsEvent(d4.col["Z_Score"], z_score_threshold))
    IN  Outcome(d5, "none", SelectRows(d5, d5.col["Is_Event"], NRows(d5)))


(* ------------------- scipy.signal.argrelextrema ----------------------- *)

\* mutant of Compare: np.less / np.greater
CompareStrict(comparator, a, b) ==
    IF comparator = "less_equal" THEN a < b ELSE a > b

\* np.less_equal / np.greater_equal
Compare(comparator, a, b) ==
    IF comparator = "less_equal" THEN a <= b ELSE a >= b

\* take(..., mode='clip'): a position outside 1..n reads the nearest end
Clip(k, n) == IF k < 1 THEN 1 ELSE IF k > n THEN n ELSE k

\* mutant of BoolRelExtrema: only a row with `order` rows on either side
\* can be an extremum
BoolRelExtremaInterior(values, comparator, order) ==
    [k \in 1..Len(values) |->
        /\ k - order >= 1
        /\ k + order <= Len(values)
        /\ \A shift \in 1..order :
            /\ Compare(comparator, values[k], values[k + shift])
            /\ Compare(comparator, values[k], values[k - shift])]

\* _boolrelextrema: values[k] compared with the values `shift` places to
\* either side, for every shift in 1..order
BoolRelExtrema(values, comparator, order) ==
    [k \in 1..Len(values) |->
        \A shift \in 1..order :
            /\ Compare(comparator, values[k], values[Clip(k + shift, Len(values))])
            /\ Compare(comparator, values[k], values[Clip(k - shift, Len(values))])]

RECURSIVE NonZero(_, _)
\* np.nonzero: the 0-based indices among the first k rows whose flag is set,
\* ascending
NonZero(flags, k) ==
    IF k = 0 THEN <<>>
    ELSE IF flags[k] THEN Append(NonZero(flags, k - 1), k - 1)
    ELSE NonZero(flags, k - 1)

\* argrelextrema(values, comparator, order=order)[0]
argrelextrema(values, comparator, order) ==
    NonZero(BoolRelExtrema(values, comparator, order), Len(values))

Range(s) == {s[k] : k \in 1..Len(s)}

\* data[name] = data.iloc[rows][source]: the source value on the given rows
\* (0-based), missing elsewhere
PivotColumn(data, rows, source) ==
    [k \in 1..NRows(data) |->
        IF (k - 1) \in Range(rows) THEN Num(data.col[source][k], 1) ELSE NaN]

RECURSIVE DropNaRows(_, _, _)
\* data[name].dropna(): the rows among the first k whose cell is present,
\* as (timestamp, value) in the order of the frame
DropNaRows(data, name, k) ==
    IF k = 0 THEN <<>>
    ELSE LET before == DropNaRows(data, name, k - 1)
         IN  IF data.col[name][k].nan THEN before
             ELSE Append(before, [t |-> data.index[k], v |-> data.col[name][k].num])

DropNa(data, name) == DropNaRows(data, name, NRows(data))

\* .tolist()
ToList(series) == [k \in 1..Len(series) |-> series[k].v]

\* mutant of Tail2: .head(n)
Head2(series, n) ==
    IF Len(series) <= n THEN series ELSE SubSeq(series, 1, n)

\* .tail(n)
Tail2(series, n) ==
    IF Len(series) <= n THEN series
    ELSE SubSeq(series, Len(series) - n + 1, Len(series))

(* -------------- forex_analysis_bot.py: calculate_atr ------------------ *)

Max2(a, b) == IF a >= b THEN a ELSE b

\* abs(data[column] - data['Close'].shift(1)): missing on the first row
AbsFromPrevClose(data, column) ==
    [k \in 1..NRows(data) |->
        IF k = 1 THEN NaN
        ELSE Num(Abs(data.col[column][k] - data.col["Close"][k - 1]), 1)]

\* data[['High-Low', 'High-PrevClose', 'Low-PrevClose']].max(axis=1): the
\* largest of the cells that are present
TrueRange(hl, hpc, lpc) ==
    [k \in 1..Len(hl) |->
        IF hpc[k].nan THEN hl[k]
        ELSE Max2(hl[k], Max2(hpc[k].num, lpc[k].num))]

RECURSIVE EwmMeanAt(_, _, _)
\* row k of x.ewm(span=span, adjust=False).mean():
\* y[1] = x[1], y[k] = (2*x[k] + (span-1)*y[k-1]) / (span+1); pandas leaves
\* y[k] = y[k-1] untouched when x[k] equals it, so the average of a
\* constant run is the value itself and not a rounding of it
EwmMeanAt(x, span, k) ==
    IF k = 1 THEN [nan |-> FALSE, num |-> x[1], den |-> 1, exact |-> TRUE]
    ELSE LET prev == EwmMeanAt(x, span, k - 1)
         IN  IF prev.exact /\ prev.num = x[k] * prev.den THEN prev
             ELSE [nan   |-> FALSE,
                   num   |-> 2 * x[k] * prev.den + (span - 1) * prev.num,
                   den   |-> (span + 1) * prev.den,
                   exact |-> FALSE]

EwmMean(x, span) == [k \in 1..Len(x) |-> EwmMeanAt(x, span, k)]

\* calculate_atr(data, period): five columns are added to data, one
\* statement at a time, and the last 'ATR' cell is returned.  data['High']
\* and data['Low'] are read first; data['Close'] is read when 'High-Low' is
\* already on the frame.
calculate_atr(data, period) ==
    IF ~({"High", "Low"} \subseteq Columns(data))
    THEN Outcome(data, "KeyError", <<>>)
    ELSE
    LET d1 == SetCol(data, "High-Low",
                     [k \in 1..NRows(data) |-> data.col["High"][k] - data.col["Low"][k]])
    IN  IF "Close" \notin Columns(d1)
        THEN Outcome(d1, "KeyError", <<>>)
        ELSE
        LET d2 == SetCol(d1, "High-PrevClose", AbsFromPrevClose(d1, "High"))
            d3 == SetCol(d2, "Low-PrevClose", AbsFromPrevClose(d2, "Low"))
            d4 == SetCol(d3, "TR", TrueRange(d3.col["High-Low"], d3.col["High-PrevClose"],
                                             d3.col["Low-PrevClose"]))
            d5 == SetCol(d4, "ATR", EwmMean(d4.col["TR"], period))
        IN  Outcome(d5, "none", d5.col["ATR"][NRows(d5)])

(* -------------- forex_analysis_bot.py: get_sr_levels ------------------ *)

RECURSIVE InsertSorted(_, _)
InsertSorted(s, x) ==
    IF s = <<>> THEN <<x>>
    ELSE IF x < Head(s) THEN <<x>> \o s
    ELSE <<Head(s)>> \o InsertSorted(Tail(s), x)

RECURSIVE SortList(_)
\* list.sort() / sorted(): ascending
SortList(s) ==
    IF s = <<>> THEN <<>> ELSE InsertSorted(SortList(Tail(s)), Head(s))

RECURSIVE SetToList(_)
\* the elements of a set of numbers, ascending
SetToList(S) ==
    IF S = {} THEN <<>>
    ELSE LET m == CHOOSE x \in S : \A y \in S : x <= y
         IN  <<m>> \o SetToList(S \ {m})

\* mutant of AllPivots: the list is not sorted
AllPivotsUnsorted(data) ==
    ToList(DropNa(data, "min")) \o ToList(DropNa(data, "max"))

\* data['min'].dropna().tolist() + data['max'].dropna().tolist(), sorted
AllPivots(data) ==
    SortList(ToList(DropNa(data, "min")) \o ToList(DropNa(data, "max")))

\* mutant of OutsideFilter: pivot >= current_level + atr_filter
OutsideFilterOrEqual(pivot, current_level, atr_filter) ==
    {(pivot - current_level) * atr_filter.den >= atr_filter.num}

\* the outcomes of `pivot > current_level + atr_filter`, for atr_filter =
\* num/den, stated on the difference pivot - current_level.  When the
\* difference equals the filter and the filter is held exactly the sum is
\* exact and the test fails; when the filter is a rounding, the roundings
\* of the filter and of the sum decide.
OutsideFilter(pivot, current_level, atr_filter) ==
    LET gap == (pivot - current_level) * atr_filter.den
    IN  IF gap > atr_filter.num THEN {TRUE}
        ELSE IF gap < atr_filter.num \/ atr_filter.exact THEN {FALSE}
        ELSE BOOLEAN

RECURSIVE ClusterLevels(_, _, _)
\* the lists `levels` can be after the loop has seen the first k pivots: it
\* starts as [all_pivots[0]], current_level is its last entry, and a pivot
\* outside the filter of current_level is appended
ClusterLevels(all_pivots, atr_filter, k) ==
    IF k = 0 THEN {<<all_pivots[1]>>}
    ELSE UNION {{IF outside THEN Append(levels, all_pivots[k]) ELSE levels :
                   outside \in OutsideFilter(all_pivots[k], levels[Len(levels)],
                                             atr_filter)} :
                 levels \in ClusterLevels(all_pivots, atr_filter, k - 1)}

\* round(l, 5) of a price l >= 0, as a count of 0.00001: the multiple
\* nearest to l * RoundNum / UnitDen, and the even one when l lies half-way
\* between two.  The whole units of l are converted apart from the rest,
\* which keeps the products small.
Round5(l) ==
    LET rest  == (l % UnitDen) * RoundNum
        below == (l \div UnitDen) * RoundNum + rest \div UnitDen
        twice == 2 * (rest % UnitDen)
    IN  IF twice > UnitDen \/ (twice = UnitDen /\ below % 2 = 1)
        THEN below + 1
        ELSE below

\* sorted(list(set(round(l, 5) for l in levels)))
RoundedLevels(levels) == SetToList({Round5(levels[k]) : k \in 1..Len(levels)})

\* get_sr_levels(data, atr_multiplier): the outcomes of the call.  data.Low
\* is read first and data.High when 'min' is already on the frame; an
\* exception of calculate_atr leaves the frame as calculate_atr left it.
\* `locals` keeps all_pivots, atr_filter and the list `levels` as it is
\* before the rounding.
get_sr_levels(data, atr_multiplier) ==
    IF "Low" \notin Columns(data)
    THEN {Outcome(data, "AttributeError", <<>>)}
    ELSE
    LET d1 == SetCol(data, "min",
                PivotColumn(data, argrelextrema(data.col["Low"], "less_equal", SR_ORDER),
                            "Low"))
    IN  IF "High" \notin Columns(d1)
        THEN {Outcome(d1, "AttributeError", <<>>)}
        ELSE
        LET d2  == SetCol(d1, "max",
                     PivotColumn(d1, argrelextrema(d1.col["High"], "greater_equal",
                                                   SR_ORDER),
                                 "High"))
            atr == calculate_atr(d2, ATR_PERIOD)
        IN  IF atr.err # "none" THEN {atr}
            ELSE
            LET atr_filter == [num   |-> atr.value.num * atr_multiplier,
                               den   |-> atr.value.den,
                               exact |-> atr.value.exact]
                all_pivots == AllPivots(atr.df)
            IN  {[Outcome(atr.df, "none", RoundedLevels(levels)) EXCEPT
                     !.locals = [all_pivots |-> all_pivots, atr_filter |-> atr_filter,
                                 levels |-> levels]] :
                   levels \in IF all_pivots = <<>> THEN {<<>>}
                              ELSE ClusterLevels(all_pivots, atr_filter,
                                                 Len(all_pivots))}

(* -------------- forex_analysis_bot.py: get_trendlines ----------------- *)

\* the dict appended for one kind of pivot: start and end are
\* (timestamp, price) of the first and the last of the pivots kept
Trendline(name, color, pivots) ==
    [name  |-> name,
     start |-> <<pivots[1].t, pivots[1].v>>,
     end   |-> <<pivots[Len(pivots)].t, pivots[Len(pivots)].v>>,
     color |-> color,
     style |-> "--"]

\* get_trendlines(data): data.Low is read first and data.High when
\* 'Low_Pivot' is already on the frame
get_trendlines(data) ==
    IF "Low" \notin Columns(data)
    THEN Outcome(data, "AttributeError", <<>>)
    ELSE
    LET d1 == SetCol(data, "Low_Pivot",
                PivotColumn(data, argrelextrema(data.col["Low"], "less_equal", pivot_order),
                            "Low"))
    IN  IF "High" \notin Columns(d1)
        THEN Outcome(d1, "AttributeError", <<>>)
        ELSE
        LET d2 == SetCol(d1, "High_Pivot",
                    PivotColumn(d1, argrelextrema(d1.col["High"], "greater_equal",
                                                  pivot_order),
                                "High"))
            low_pivots  == Tail2(DropNa(d2, "Low_Pivot"), 2)
            high_pivots == Tail2(DropNa(d2, "High_Pivot"), 2)
            support    == IF Len(low_pivots) >= 2
                          THEN <<Trendline("Uptrend Support", "green", low_pivots)>>
                          ELSE <<>>
            resistance == IF Len(high_pivots) >= 2
                          THEN <<Trendline("Downtrend Resistance", "red", high_pivots)>>
                          ELSE <<>>
        IN  Outcome(d2, "none", support \o resistance)

(* ------------------------- callers in the repo ------------------------ *)

\* main.py: WINDOW_SIZE and Z_SCORE_THRESHOLD of main()
WINDOW_SIZE == 40

Z_SCORE_THRESHOLD == 3

\* data.copy(): a frame of its own with the same index and columns
Copy(data) == [index |-> data.index, col |-> data.col]

(* ------------------------------ inputs -------------------------------- *)

SignalValues == {0, 1, 3}

\* scenario B of the specification
ScenarioB == <<0, 0, 0, 0, 0, 10, 10, 10, 10, 10>>

Signals == UNION {[1..n -> SignalValues] : n \in 1..MaxSigLen} \cup {ScenarioB}

\* bars [High, Low, Close] with Low <= Close <= High, in price units
BarTypes == {[Low |-> 3, High |-> 6,  Close |-> 4],
             [Low |-> 6, High |-> 12, Close |-> 8]}

BarSeries == UNION {[1..n -> BarTypes] : n \in 1..MaxBars}

\* six quiet bars and a bar that falls through them: the true range goes
\* from 1 to 721, the average true range is (13 * 1 + 2 * 721) / 15 = 97,
\* and the quiet low lies 97 above the last low
QuietBar == [Low |-> 100, High |-> 101, Close |-> 100]

WideBar == [Low |-> 3, High |-> 724, Close |-> 200]

WideSeries == <<QuietBar, QuietBar, QuietBar, QuietBar, QuietBar, QuietBar, WideBar>>

\* a bar whose low (0.046875) and high (0.078125) lie half-way between two
\* multiples of 0.00001, and a narrow bar inside it
HalfWaySeries ==
    <<[Low |-> 24576, High |-> 40960, Close |-> 30000],
      [Low |-> 30000, High |-> 30001, Close |-> 30000]>>

Windows == -1..MaxWindow

\* z_score_threshold as num/den
Thresholds == {[num |-> -1, den |-> 1], [num |-> 0, den |-> 1], [num |-> 1, den |-> 2],
               [num |-> 1, den |-> 1], [num |-> 2, den |-> 1]}

(* --------------------------- state machine ---------------------------- *)

\* df is the frame the caller owns; ret is the last call made on it: the
\* operation, its arguments, the columns the frame had when the call was
\* made, the exception raised and the value returned.
Returned(op, args, before, o) ==
    [op |-> op, args |-> args, before |-> Columns(before), err |-> o.err,
     value |-> o.value, locals |-> o.locals]

NoCall ==
    [op |-> "none", args |-> <<>>, before |-> {}, err |-> "none", value |-> <<>>,
     locals |-> <<>>]

SignalFrames == {SignalFrame(s) : s \in Signals}

OhlcFrames == {OhlcFrame(b) : b \in BarSeries \cup {WideSeries, HalfWaySeries}}

\* a frame with the given columns only
Restrict(data, columns) ==
    [index |-> data.index, col |-> [c \in columns |-> data.col[c]]]

\* frames of at most two bars that lack one of the OHLC columns
PartialFrames ==
    {Restrict(f, columns) :
        f \in {g \in OhlcFrames : NRows(g) <= 2},
        columns \in {{"Low", "Close"}, {"High", "Close"}, {"High", "Low"}}}

\* detect_sr_events(data, window=.., z_score_threshold=..) on the caller's
\* own frame, as bot/plotter.py calls it
Detect ==
    \E window \in Windows, threshold \in Thresholds :
        LET o == detect_sr_events(df, window, threshold)
        IN  /\ df' = o.df
            /\ ret' = Returned("detect_sr_events",
                               [window |-> window, threshold |-> threshold], df, o)

\* main(): detect_sr_events(df=data_df.copy(), window=WINDOW_SIZE,
\* z_score_threshold=Z_SCORE_THRESHOLD)
Main ==
    LET o == detect_sr_events(Copy(df), WINDOW_SIZE,
                              [num |-> Z_SCORE_THRESHOLD, den |-> 1])
    IN  /\ df' = df
        /\ ret' = Returned("main", <<>>, df, o)

CalculateAtr ==
    LET o == calculate_atr(df, ATR_PERIOD)
    IN  /\ df' = o.df
        /\ ret' = Returned("calculate_atr", [period |-> ATR_PERIOD], df, o)

GetSrLevels ==
    \E o \in get_sr_levels(df, ATR_MULTIPLIER) :
        /\ df' = o.df
        /\ ret' = Returned("get_sr_levels", [atr_multiplier |-> ATR_MULTIPLIER], df,
                           o)

GetTrendlines ==
    LET o == get_trendlines(df)
    IN  /\ df' = o.df
        /\ ret' = Returned("get_trendlines", <<>>, df, o)

\* run_analysis(): get_sr_levels(data.copy()); get_trendlines(data.copy()).
\* An exception of the first call skips the second; err is the exception
\* that the function catches and prints.
RunAnalysis ==
    \E sr \in get_sr_levels(Copy(df), ATR_MULTIPLIER) :
        LET tl == get_trendlines(Copy(df))
        IN  /\ df' = df
            /\ ret' = [op |-> "run_analysis", args |-> <<>>, before |-> Columns(df),
                       err |-> IF sr.err # "none" THEN sr.err ELSE tl.err,
                       value |-> [sr_levels  |-> sr.value,
                                  trendlines |-> IF sr.err # "none" THEN <<>>
                                                 ELSE tl.value],
                       locals |-> <<>>]

(* The rolling anomaly detector: every 'Signal' frame, and the one-bar     *)
(* OHLC frames as frames without a 'Signal' column.                        *)
InitSR ==
    /\ df \in SignalFrames \cup {f \in OhlcFrames : NRows(f) = 1}
    /\ ret = NoCall

NextSR ==
    \/ Detect
    \/ Main

SpecSR == InitSR /\ [][NextSR]_vars

(* The extrema and level clusterer: every OHLC frame, the short frames     *)
(* that lack an OHLC column, and the one-row 'Signal' frames as frames     *)
(* without any.                                                            *)
InitFX ==
    /\ df \in OhlcFrames \cup PartialFrames \cup {f \in SignalFrames : NRows(f) = 1}
    /\ ret = NoCall

NextFX ==
    \/ CalculateAtr
    \/ GetSrLevels
    \/ GetTrendlines
    \/ RunAnalysis

SpecFX == InitFX /\ [][NextFX]_vars

(* =============================== claims ================================ *)

N == NRows(df)

IsDetect == ret.op = "detect_sr_events"

Positive(threshold) == threshold.num > 0

\* the row labels (timestamps) of a returned event list, in its order
EventIndices(events) == [k \in 1..Len(events) |-> events[k].t]

RECURSIVE SumSqDev(_, _, _, _, _)
\* sum over the positions lo..hi of (w*s[j] - total)^2, which is w^2 times
\* the sum of the squared deviations from the mean total/w
SumSqDev(s, lo, hi, w, total) ==
    IF lo > hi THEN 0
    ELSE (w * s[hi] - total) * (w * s[hi] - total) + SumSqDev(s, lo, hi - 1, w, total)

\* |z[i]| > threshold for z[i] = (value[i] - mean) / (sample std + epsilon)
\* over the w values ending at row i (0-based): the mean is total/w, the
\* sample variance is sum((value[j] - mean)^2) / (w - 1).  A single value
\* has no deviation from its own mean.
ZExceeds(signal, i, w, threshold) ==
    LET total == SumRange(signal, i - w + 2, i + 1)
    IN  /\ w >= 2
        /\ ExceedsScaled(w * At(signal, i) - total, w,
                         SumSqDev(signal, i - w + 2, i + 1, w, total), w * w * (w - 1),
                         threshold.num, threshold.den)

Qualifying(signal, w, threshold) ==
    {i \in 0..(Len(signal) - 1) : i >= w - 1 /\ ZExceeds(signal, i, w, threshold)}

\* C1: for a window w with 1 <= w <= n and a threshold > 0, detect_sr_events
\* returns exactly the rows i >= w-1 with |z[i]| > threshold, in the order of
\* the series, each once, each with its own 'Signal' value.
C1_EventsAreQualifying ==
    (IsDetect /\ "Signal" \in ret.before /\ ret.args.window \in 1..N
       /\ Positive(ret.args.threshold))
    => /\ ret.err = "none"
       /\ EventIndices(ret.value)
            = SetToList(Qualifying(df.col["Signal"], ret.args.window, ret.args.threshold))
       /\ \A k \in 1..Len(ret.value) :
            /\ ret.value[k].t >= ret.args.window - 1
            /\ ret.value[k].Signal = At(df.col["Signal"], ret.value[k].t)

\* a call that flags some rows with a full window and not others, one of
\* them below the rolling mean
C1_Witness ==
    /\ IsDetect /\ ret.err = "none" /\ ret.args.window \in 2..N
    /\ Positive(ret.args.threshold)
    /\ Len(ret.value) >= 2
    /\ Len(ret.value) < N - ret.args.window + 1
    /\ \E k \in 1..Len(ret.value) : ret.value[k].Z_Score.num < 0

AnalysisOps == {"detect_sr_events", "calculate_atr", "get_sr_levels", "get_trendlines"}

\* C2: after a call of an analysis operation the caller's frame has the set
\* of columns it had before the call.
C2_FrameUntouched ==
    (ret.op \in AnalysisOps) => Columns(df) = ret.before

\* C3: detect_sr_events raises, returning no event list, whenever window <= 0
\* or z_score_threshold <= 0 or the 'Signal' column is absent.
C3_BadParametersRaise ==
    (IsDetect /\ (\/ ret.args.window <= 0
                  \/ ret.args.threshold.num <= 0
                  \/ "Signal" \notin ret.before))
    => ret.err # "none"

\* the rows (0-based) that are extrema of their neighbourhood
\* [i - order, i + order] cut to the series: values[i] <= (or >=) every
\* value in it
ClippedNeighbourhood(i, order, n) ==
    {j \in 0..(n - 1) : i - order <= j /\ j <= i + order}

LowPivots(low, order) ==
    {i \in 0..(Len(low) - 1) :
        \A j \in ClippedNeighbourhood(i, order, Len(low)) : At(low, i) <= At(low, j)}

HighPivots(high, order) ==
    {i \in 0..(Len(high) - 1) :
        \A j \in ClippedNeighbourhood(i, order, Len(high)) : At(high, i) >= At(high, j)}

Occurrences(values, v) == Cardinality({k \in 1..Len(values) : values[k] = v})

MinOf(values) == CHOOSE v \in Range(values) : \A u \in Range(values) : v <= u

MaxOf(values) == CHOOSE v \in Range(values) : \A u \in Range(values) : v >= u

HasLine(lines, name) == \E k \in 1..Len(lines) : lines[k].name = name

\* C4 as stated: with fewer than 2*order+1 observations get_sr_levels
\* (order 5) returns no level and get_trendlines (order 20) no trendline.
C4_ShortSeriesEmpty ==
    /\ (ret.op = "get_sr_levels" /\ ret.err = "none" /\ N < 2 * SR_ORDER + 1)
         => ret.value = <<>>
    /\ (ret.op = "get_trendlines" /\ ret.err = "none" /\ N < 2 * pivot_order + 1)
         => ret.value = <<>>

\* C4 amended: with fewer than 2*order+1 observations nothing is raised and
\* pivots are still found, the lowest low and the highest high among them:
\* get_sr_levels returns at least one level, and get_trendlines returns the
\* support line when the lowest low occurs twice and the resistance line
\* when the highest high occurs twice.
C4_ShortSeriesStillHasPivots ==
    /\ (ret.op = "get_sr_levels" /\ {"High", "Low", "Close"} \subseteq ret.before
          /\ N < 2 * SR_ORDER + 1)
         => /\ ret.err = "none"
            /\ \E k \in 1..N : ~df.col["min"][k].nan
                                /\ df.col["Low"][k] = MinOf(df.col["Low"])
            /\ \E k \in 1..N : ~df.col["max"][k].nan
                                /\ df.col["High"][k] = MaxOf(df.col["High"])
            /\ Len(ret.value) >= 1
    /\ (ret.op = "get_trendlines" /\ {"High", "Low"} \subseteq ret.before
          /\ N < 2 * pivot_order + 1)
         => /\ ret.err = "none"
            /\ (Occurrences(df.col["Low"], MinOf(df.col["Low"])) >= 2
                  => HasLine(ret.value, "Uptrend Support"))
            /\ (Occurrences(df.col["High"], MaxOf(df.col["High"])) >= 2
                  => HasLine(ret.value, "Downtrend Resistance"))

\* a series shorter than 2*5+1 on which get_trendlines returns both lines
C4_Witness ==
    /\ ret.op = "get_trendlines" /\ ret.err = "none" /\ N < 2 * SR_ORDER + 1
    /\ Len(ret.value) = 2

IsScenarioB(w, threshold) ==
    /\ IsDetect /\ ret.err = "none"
    /\ df.col["Signal"] = ScenarioB
    /\ ret.args.window = w /\ ret.args.threshold = threshold

\* C5 as stated: on scenario B with window 3 and threshold 2.0 the event list
\* is not empty, holds index 5 and no index from 7 to 9.
C5_ScenarioBFlagsShift ==
    IsScenarioB(3, [num |-> 2, den |-> 1])
    => /\ ret.value # <<>>
       /\ 5 \in Range(EventIndices(ret.value))
       /\ Range(EventIndices(ret.value)) \cap 7..9 = {}

\* C5 amended: on scenario B with window 3 the z-score is 2/sqrt(3) at
\* index 5 and 1/sqrt(3) at index 6 and 0 elsewhere, so the event list is
\* empty for threshold 2.0, is exactly index 5 for threshold 1.0 and exactly
\* indices 5 and 6 for threshold 0.5; indices 7 to 9 are never returned.
C5_ScenarioBEvents ==
    /\ IsScenarioB(3, [num |-> 2, den |-> 1]) => ret.value = <<>>
    /\ IsScenarioB(3, [num |-> 1, den |-> 1]) => EventIndices(ret.value) = <<5>>
    /\ IsScenarioB(3, [num |-> 1, den |-> 2]) => EventIndices(ret.value) = <<5, 6>>
    /\ \A k \in 1..Len(ret.value) :
         (IsScenarioB(3, ret.args.threshold) /\ Positive(ret.args.threshold))
         => /\ ret.value[k].t \notin 7..9
            \* z^2 = (num/den)^2 / (vnum/vden) is 4/3 at index 5, 1/3 at 6
            /\ LET z == ret.value[k].Z_Score
               IN  3 * z.num * z.num * z.vden
                     = (IF ret.value[k].t = 5 THEN 4 ELSE 1) * z.den * z.den * z.vnum

C5_Witness ==
    /\ IsScenarioB(3, [num |-> 2, den |-> 1])
    /\ "Is_Event" \in Columns(df)


IsLevels == ret.op = "get_sr_levels" /\ ret.err = "none"

RECURSIVE FracLess(_, _, _, _)
\* a/b < c/d for a, c >= 0 and b, d > 0, by the integer parts and then the
\* inverted remainders (no product is formed)
FracLess(a, b, c, d) ==
    IF a \div b # c \div d THEN a \div b < c \div d
    ELSE IF c % d = 0 THEN FALSE
    ELSE IF a % b = 0 THEN TRUE
    ELSE FracLess(d, c % d, b, a % b)

\* the distance of two returned levels (counts of 0.00001) is
\* |a - b| * UnitDen / RoundNum price units; filter = num/den

\* |a - b| >= filter
LevelGapAtLeast(a, b, filter) ==
    ~FracLess(Abs(a - b) * UnitDen, RoundNum, filter.num, filter.den)

\* |a - b| >= filter - 0.00001 and |a - b| > filter - 0.00001
LevelGapAtLeastLessQuantum(a, b, filter) ==
    ~FracLess((Abs(a - b) + 1) * UnitDen, RoundNum, filter.num, filter.den)

LevelGapAboveLessQuantum(a, b, filter) ==
    FracLess(filter.num, filter.den, (Abs(a - b) + 1) * UnitDen, RoundNum)

\* two seeds (price units): |a - b| >= filter and |a - b| > filter
SeedGapAtLeast(a, b, filter) == Abs(a - b) * filter.den >= filter.num

SeedGapAbove(a, b, filter) == Abs(a - b) * filter.den > filter.num

\* |round(l, 5) - l| <= 0.000005
MovedAtMostHalfQuantum(l) ==
    2 * Abs(Round5(l) * UnitDen - l * RoundNum) <= UnitDen

\* the rounding of l is the even multiple of 0.00001 when l lies half-way
HalfWayToEven(l) ==
    2 * Abs(Round5(l) * UnitDen - l * RoundNum) = UnitDen => Round5(l) % 2 = 0

\* C6 as stated: any two distinct returned levels differ by at least
\* atr_multiplier * latest ATR.
C6_LevelsSeparated ==
    IsLevels
    => \A a, b \in Range(ret.value) :
          a # b => LevelGapAtLeast(a, b, ret.locals.atr_filter)

\* C6 amended: the levels before rounding differ pairwise by at least
\* atr_multiplier * latest ATR, and by more than it when the filter is held
\* exactly; the returned levels are their roundings to 5 decimals, each
\* moved by at most 0.000005 (to the even multiple when by exactly that),
\* and two distinct returned levels differ by at least atr_multiplier *
\* latest ATR - 0.00001, and by more when the filter is held exactly.
C6_SeedsSeparated ==
    IsLevels
    => /\ \A j, k \in 1..Len(ret.locals.levels) :
            j # k => /\ SeedGapAtLeast(ret.locals.levels[j], ret.locals.levels[k],
                                       ret.locals.atr_filter)
                     /\ ret.locals.atr_filter.exact
                          => SeedGapAbove(ret.locals.levels[j], ret.locals.levels[k],
                                          ret.locals.atr_filter)
       /\ Range(ret.value) = {Round5(l) : l \in Range(ret.locals.levels)}
       /\ \A l \in Range(ret.locals.levels) :
            MovedAtMostHalfQuantum(l) /\ HalfWayToEven(l)
       /\ \A a, b \in Range(ret.value) :
            a # b => /\ LevelGapAtLeastLessQuantum(a, b, ret.locals.atr_filter)
                     /\ ret.locals.atr_filter.exact
                          => LevelGapAboveLessQuantum(a, b, ret.locals.atr_filter)

\* two levels that the rounding has moved closer than the filter
C6_Witness ==
    /\ IsLevels
    /\ \E a, b \in Range(ret.value) :
          a # b /\ ~LevelGapAtLeast(a, b, ret.locals.atr_filter)

\* the values of the low-pivots and high-pivots of order 5
PivotValues ==
    {At(df.col["Low"], i) : i \in LowPivots(df.col["Low"], SR_ORDER)}
      \cup {At(df.col["High"], i) : i \in HighPivots(df.col["High"], SR_ORDER)}

\* s <= p <= s + filter
Covers(s, p, filter) == s <= p /\ (p - s) * filter.den <= filter.num

\* C7: every pivot value is covered by a seed s with s <= p <= s +
\* atr_multiplier * latest ATR; the first seed is the smallest pivot value
\* and every seed is a pivot value.
C7_SeedsCoverPivots ==
    (IsLevels /\ PivotValues # {})
    => /\ ret.locals.levels # <<>>
       /\ \A p \in PivotValues : ret.locals.levels[1] <= p
       /\ Range(ret.locals.levels) \subseteq PivotValues
       /\ \A p \in PivotValues :
            \E s \in Range(ret.locals.levels) : Covers(s, p, ret.locals.atr_filter)

\* a call with three seeds and a pivot that is no seed and lies exactly the
\* filter above the seed that covers it
C7_Witness ==
    /\ IsLevels
    /\ Len(ret.locals.levels) >= 3
    /\ \E p \in PivotValues :
          /\ p \notin Range(ret.locals.levels)
          /\ \E s \in Range(ret.locals.levels) :
                (p - s) * ret.locals.atr_filter.den = ret.locals.atr_filter.num

IsTrendlines == ret.op = "get_trendlines" /\ ret.err = "none"

\* the line drawn through the two latest of the given pivot rows
LineOfKind(lines, name, pivots, values) ==
    LET last  == CHOOSE i \in pivots : \A j \in pivots : j <= i
        first == CHOOSE i \in pivots \ {last} : \A j \in pivots \ {last} : j <= i
    IN  \E k \in 1..Len(lines) :
          /\ lines[k].name = name
          /\ lines[k].start = <<first, At(values, first)>>
          /\ lines[k].end = <<last, At(values, last)>>
          /\ lines[k].start[1] < lines[k].end[1]

\* C8: get_trendlines returns at most two lines, at most one of each name:
\* 'Uptrend Support' iff there are two low-pivots, 'Downtrend Resistance'
\* iff there are two high-pivots; a line starts at the last but one pivot
\* of its kind and ends at the last one, each with the low (high) of its row.
C8_Trendlines ==
    IsTrendlines
    => LET lows  == LowPivots(df.col["Low"], pivot_order)
           highs == HighPivots(df.col["High"], pivot_order)
       IN  /\ Len(ret.value) <= 2
           /\ \A j, k \in 1..Len(ret.value) :
                ret.value[j].name = ret.value[k].name => j = k
           /\ \A k \in 1..Len(ret.value) :
                ret.value[k].name \in {"Uptrend Support", "Downtrend Resistance"}
           /\ HasLine(ret.value, "Uptrend Support") <=> Cardinality(lows) >= 2
           /\ HasLine(ret.value, "Downtrend Resistance") <=> Cardinality(highs) >= 2
           /\ Cardinality(lows) >= 2
                => LineOfKind(ret.value, "Uptrend Support", lows, df.col["Low"])
           /\ Cardinality(highs) >= 2
                => LineOfKind(ret.value, "Downtrend Resistance", highs, df.col["High"])

\* both lines, with more than two low-pivots to choose from
C8_Witness ==
    /\ IsTrendlines
    /\ Len(ret.value) = 2
    /\ Cardinality(LowPivots(df.col["Low"], pivot_order)) >= 3

\* the rows whose cell of a pivot column is present
Marked(column) == {k - 1 : k \in {j \in 1..Len(column) : ~column[j].nan}}

\* C9: row i is marked as a low-pivot iff low[i] <= low[j] for every j of
\* [i - order, i + order] within the series, and as a high-pivot iff
\* high[i] >= high[j] for every such j; order is 5 for the 'min' and 'max'
\* columns and 20 for 'Low_Pivot' and 'High_Pivot'.
C9_PivotsAreClippedExtrema ==
    /\ "min" \in Columns(df)
         => Marked(df.col["min"]) = LowPivots(df.col["Low"], SR_ORDER)
    /\ "max" \in Columns(df)
         => Marked(df.col["max"]) = HighPivots(df.col["High"], SR_ORDER)
    /\ "Low_Pivot" \in Columns(df)
         => Marked(df.col["Low_Pivot"]) = LowPivots(df.col["Low"], pivot_order)
    /\ "High_Pivot" \in Columns(df)
         => Marked(df.col["High_Pivot"]) = HighPivots(df.col["High"], pivot_order)

\* a low-pivot that is not the lowest low of the series (its neighbourhood
\* does not reach it), two adjacent high-pivots of one plateau, and a row
\* that is no low-pivot
C9_Witness ==
    /\ "min" \in Columns(df) /\ "max" \in Columns(df)
    /\ \E i \in Marked(df.col["min"]) : At(df.col["Low"], i) > MinOf(df.col["Low"])
    /\ \E i \in Marked(df.col["max"]) : i + 1 \in Marked(df.col["max"])
    /\ Marked(df.col["min"]) # 0..(N - 1)

\* C10: a call on a frame that earlier calls have worked on returns what the
\* same call returns on a frame holding the 'Signal' values alone.
C10_SameAsOnFreshFrame ==
    (IsDetect /\ "Signal" \in ret.before)
    => LET fresh == detect_sr_events(SignalFrame(df.col["Signal"]), ret.args.window,
                                     ret.args.threshold)
       IN  /\ ret.err = fresh.err
           /\ ret.value = fresh.value

\* a call that returns events from a frame an earlier call has left its
\* columns on
C10_Witness ==
    /\ IsDetect /\ ret.err = "none"
    /\ "Is_Event" \in ret.before
    /\ ret.value # <<>>


====
